---- MODULE Spec2Model ----
(***************************************************************************)
(* The deferred execution engine of persona-mcp: InMemoryScheduler         *)
(* (core/scheduler.ts) and RateLimiter (core/rateLimit.ts).                *)
(*                                                                         *)
(* Spec     the scheduler: schedule, cancel, clear, start, stop,           *)
(*          setProvider, the interval timer's ticks and the resolution of  *)
(*          each awaited provider.send call.                               *)
(* SpecNoClear  the scheduler without clear().                             *)
(* LimSpec  the rate limiter: check, peek, reset, clear, cleanup.          *)
(* LiveSpec the scheduler with a provider set, its timer running, and the  *)
(*          fairness of the timer and of the provider's promises.          *)
(* ToolSpec the send_notification and schedule_notification handlers over  *)
(*          the shared scheduler and rate limiters.                        *)
(* SchedToolSpec  the schedule_notification handler with the scheduler's    *)
(*          timer and deliveries.                                          *)
(***************************************************************************)
EXTENDS Integers, Sequences, FiniteSets, Bags

\* ------------------------------------------------------------------ bounds

\* Date.now() ranges over 0..MaxTime in the scheduler specification.
MaxTime == 1
\* At most MaxJobs job objects are created by schedule().
MaxJobs == 2
\* At most MaxInFlight processJobs() calls are suspended in an await at once.
MaxInFlight == 2

\* Caller-supplied idempotency keys, message texts and executeAt times.
\* Keys and messages are only ever compared for equality, so they are
\* numbered in the order of their first use.
Keys == {1, 2}
Messages == {1, 2}
ExecuteAts == {0, 1}

\* The limiter's configuration (RateLimitConfig) and the range 0..LimMaxTime
\* of Date.now() in the limiter specification.
MaxRequests == 2
WindowMs == 2
LimMaxTime == 4

\* The keys check, peek and reset are called with.
LimKeys == {"a", "b"}

\* The MockCalendarProvider: the events it stores at most, the createEvent
\* calls suspended at a time, and the range 0..MaxEventTime of the startAt
\* and endAt of a request.
MaxEvents == 2
MaxCreating == 2
MaxEventTime == 2

\* The uuidv4() values drawn, and the startRoleplay() calls suspended at a
\* time.
MaxUuids == 3
MaxRoleplays == 2

\* The target_id of the tool requests, which is their rate-limit key, and
\* the execute_at times they may carry.
Targets == {"a"}
ToolExecuteAts == 0..(MaxTime + 1)

\* ------------------------------------------------------------- scheduler

VARIABLES
    now,              \* Date.now()
    jobs,             \* this.jobs: the Map's entry list, in insertion order
    objs,             \* the ScheduledJob objects ever created, by reference
    idempotencyIndex, \* this.idempotencyIndex
    timer,            \* this.timer !== null
    intervals,        \* the setInterval timers the scheduler created that no
                      \* clearInterval has cancelled
    provider,         \* this.provider !== null
    sweeps,           \* processJobs() calls suspended in `await provider.send`
    sendCount,        \* per job object: provider.send calls made by the sweep
    firstSched        \* per key: the jobId schedule() returned with
                      \* isNew=true, no cancel or clear having removed a job
                      \* since

\* ------------------------------------------------------------ rate limiter

VARIABLES
    limits,           \* this.limits
    windowStart,      \* per key: when the check that created its entry ran
    callsInWindow,    \* per key: check calls since then, that one included
    allowedLog,       \* per key: the times, later than now - windowMs, of
                      \* the checks that returned allowed=true since the
                      \* last reset of the key
    lastResult,       \* the most recent limiter call, the table before
                      \* it, and what it returned
    unswept           \* the entries of a limiter that is given the same
                      \* check, peek, reset and clear calls at the same
                      \* times and whose cleanup() never runs

\* ------------------------------------------------------------- tool layer

VARIABLES
    lastCall,         \* the call the last step made: a schedule, a cancel,
                      \* a timer tick, the settling of a send or a tool
                      \* request, with what it returned or did
    defaultLimits,    \* defaultRateLimiter.limits
    sentNotifications \* MockNotificationProvider.sentNotifications, as the
                      \* executionIds handleSendNotification's sends stored

\* --------------------------------------------------- calendar and roleplay

VARIABLES
    events,           \* MockCalendarProvider.events, as the stored records
    creating,         \* the create_event requests and createEvent() calls
                      \* suspended in `await ...checkConflict(...)`, each
                      \* with what its checkConflict call returned
    characters,       \* InMemoryStorage.characters: the key and the
                      \* Character of every entry
    sessions,         \* InMemoryStorage.sessions
    roleplays,        \* the startRoleplay() calls suspended in an await
    uuids             \* the uuidv4() values drawn so far

schedVars == <<jobs, objs, idempotencyIndex, timer, intervals, provider,
               sweeps, sendCount, firstSched>>
limVars == <<limits, windowStart, callsInWindow, allowedLog, lastResult,
            unswept>>
toolVars == <<defaultLimits, sentNotifications>>
calVars == <<events, creating>>
rpVars == <<characters, sessions, roleplays, uuids>>
appVars == <<calVars, rpVars>>
vars == <<now, schedVars, limVars, lastCall, toolVars, appVars>>

\* Map.get() of an absent key, and a deleted entry of a Map's entry list.
NoId == [ts |-> -1, rnd |-> 0]
EmptySlot == [id |-> NoId, ref |-> 0]
NoTime == -1
NoError == ""

\* limits.get(key) of a key without entry.
NoEntry == [count |-> 0, resetAt |-> NoTime]

\* The last step made no schedule, cancel or tool request, began no
\* processJobs() call and settled no send.
NoCall == [op |-> "none"]

\* generateId('job'): `job_${Date.now().toString(36)}_${random}`.
generateJobId(t, r) == [ts |-> t, rnd |-> r]

JobIds == {generateJobId(t, r) : t \in 0..MaxTime, r \in 1..MaxJobs}

\* The values Math.random().toString(36).substring(2, 10) may return to a
\* generateId call made at time t: one it returned earlier in that
\* millisecond, or a new one.  The values drawn within one millisecond are
\* numbered in the order of their first appearance.
RandomVals(heap, t) ==
    1..(Cardinality({heap[i].id.rnd :
                        i \in {j \in 1..Len(heap) : heap[j].id.ts = t}}) + 1)

\* The keys and messages a schedule() request may carry: one a stored job
\* carries, or the next unused one.
UsableKeys(heap) ==
    {k \in Keys : \A j \in Keys :
        j < k => \E i \in 1..Len(heap) : heap[i].idempotencyKey = j}
UsableMessages(heap) ==
    {m \in Messages : \A j \in Messages :
        j < m => \E i \in 1..Len(heap) : heap[i].request.message = j}

\* The entry of the Map's entry list that holds key id; 0 when none does.
SlotOf(list, id) ==
    IF \E i \in 1..Len(list) : list[i].id = id
    THEN CHOOSE i \in 1..Len(list) : list[i].id = id
    ELSE 0

\* jobs.get(jobId), as the job object's reference (0: undefined).
JobsGet(list, id) ==
    IF id = NoId \/ SlotOf(list, id) = 0 THEN 0 ELSE list[SlotOf(list, id)].ref

\* jobs.set(jobId, job): an existing key keeps its place and gets the new
\* value; a new key is appended.
JobsSet(list, id, ref) ==
    IF SlotOf(list, id) # 0
    THEN [list EXCEPT ![SlotOf(list, id)] = [id |-> id, ref |-> ref]]
    ELSE Append(list, [id |-> id, ref |-> ref])

JobsDelete_KeepsEntry(list, id) == list

\* jobs.delete(jobId): the entry is emptied; live iterators skip it.
JobsDelete(list, id) ==
    [i \in 1..Len(list) |-> IF list[i].id = id THEN EmptySlot ELSE list[i]]

\* jobs.clear(): every entry is emptied.
JobsClear(list) == [i \in 1..Len(list) |-> EmptySlot]

\* The job object schedule() builds.
NewJob(id, k, at, msg) ==
    [id |-> id, idempotencyKey |-> k, executeAt |-> at,
     request |-> [message |-> msg, confirm |-> TRUE],
     status |-> "pending", createdAt |-> now,
     executedAt |-> NoTime, error |-> NoError]

NextDue_ReadsClock(list, heap, pos, tnow) ==
    LET due == {i \in (pos + 1)..Len(list) :
                    /\ list[i] # EmptySlot
                    /\ heap[list[i].ref].status = "pending"
                    /\ ~(heap[list[i].ref].executeAt > now)}
    IN IF due = {} THEN 0 ELSE CHOOSE i \in due : \A j \in due : i <= j

\* The loop of processJobs from entry `pos` on: the first later entry whose
\* job is pending and due at the tick's `tnow`; 0 when the loop runs out.
NextDue(list, heap, pos, tnow) ==
    LET due == {i \in (pos + 1)..Len(list) :
                    /\ list[i] # EmptySlot
                    /\ heap[list[i].ref].status = "pending"
                    /\ ~(heap[list[i].ref].executeAt > tnow)}
    IN IF due = {} THEN 0 ELSE CHOOSE i \in due : \A j \in due : i <= j

Init ==
    /\ now = 0
    /\ jobs = <<>>
    /\ objs = <<>>
    /\ idempotencyIndex = [k \in Keys |-> NoId]
    /\ timer = FALSE
    /\ intervals = 0
    /\ provider = FALSE
    /\ sweeps = EmptyBag
    /\ sendCount = <<>>
    /\ firstSched = [k \in Keys |-> NoId]
    /\ limits = [k \in LimKeys |-> NoEntry]
    /\ windowStart = [k \in LimKeys |-> NoTime]
    /\ callsInWindow = [k \in LimKeys |-> 0]
    /\ allowedLog = [k \in LimKeys |-> <<>>]
    /\ lastResult = [op |-> "none"]
    /\ unswept = [k \in LimKeys |-> NoEntry]
    /\ lastCall = NoCall
    /\ defaultLimits = [k \in LimKeys |-> NoEntry]
    /\ sentNotifications = {}
    /\ events = {}
    /\ creating = EmptyBag
    /\ characters = {}
    /\ sessions = {}
    /\ roleplays = EmptyBag
    /\ uuids = 0

\* setProvider(provider)
SetProvider ==
    /\ provider' = TRUE
    /\ lastCall' = NoCall
    /\ UNCHANGED <<now, jobs, objs, idempotencyIndex, timer, intervals,
                   sweeps, sendCount, firstSched, limVars, toolVars, appVars>>

ensureTimerRunning_AlwaysSets ==
    [timer |-> TRUE, intervals |-> intervals + 1]

ensureTimerRunning_Returns == [timer |-> timer, intervals |-> intervals]

\* ensureTimerRunning(): the timer field and the active intervals it
\* leaves; `if (this.timer) return`, else a new interval is created.
ensureTimerRunning ==
    IF timer
    THEN [timer |-> timer, intervals |-> intervals]
    ELSE [timer |-> TRUE, intervals |-> intervals + 1]

ScheduleReturn_AlwaysNew(k, r) ==
    [jobId |-> generateJobId(now, r), isNew |-> TRUE]

ScheduleReturn_NewWhenTerminal(k, r) ==
    IF /\ idempotencyIndex[k] # NoId
       /\ \A ref \in 1..Len(objs) :
              objs[ref].id = idempotencyIndex[k] => objs[ref].status = "pending"
    THEN [jobId |-> idempotencyIndex[k], isNew |-> FALSE]
    ELSE [jobId |-> generateJobId(now, r), isNew |-> TRUE]

\* What schedule() returns for key k when generateJobId() draws r.
ScheduleReturn(k, r) ==
    IF idempotencyIndex[k] # NoId
    THEN [jobId |-> idempotencyIndex[k], isNew |-> FALSE]
    ELSE [jobId |-> generateJobId(now, r), isNew |-> TRUE]

Schedule_KeepsConfirm(k, at, msg, c, r) ==
    LET ret == ScheduleReturn(k, r)
        ref == Len(objs) + 1
    IN
    /\ IF ~ret.isNew
       THEN UNCHANGED <<now, schedVars, limVars, toolVars, appVars>>
       ELSE
         /\ Len(objs) < MaxJobs
         /\ objs' = Append(objs, [NewJob(ret.jobId, k, at, msg)
                                     EXCEPT !.request.confirm = c])
         /\ sendCount' = Append(sendCount, 0)
         /\ jobs' = JobsSet(jobs, ret.jobId, ref)
         /\ idempotencyIndex' = [idempotencyIndex EXCEPT ![k] = ret.jobId]
         /\ timer' = ensureTimerRunning.timer
         /\ intervals' = ensureTimerRunning.intervals
         /\ firstSched' = [firstSched EXCEPT ![k] = ret.jobId]
         /\ UNCHANGED <<now, provider, sweeps, limVars, toolVars, appVars>>
    /\ lastCall' = [op |-> "schedule", key |-> k, message |-> msg,
                    mapped |-> idempotencyIndex[k] # NoId,
                    ret |-> ret, wasRunning |-> timer,
                    same |-> /\ jobs' = jobs
                             /\ objs' = objs
                             /\ idempotencyIndex' = idempotencyIndex]

\* schedule(request), with generateJobId() drawing r.  lastCall records the
\* request's key and message, whether the index held the key, what the
\* call returned, whether the timer was running when it was made, and
\* whether it left the job table, the job objects and the index as they
\* were.
Schedule(k, at, msg, c, r) ==
    LET ret == ScheduleReturn(k, r)
        ref == Len(objs) + 1
    IN
    /\ IF ~ret.isNew
       THEN UNCHANGED <<now, schedVars, limVars, toolVars, appVars>>
       ELSE
         /\ Len(objs) < MaxJobs
         /\ objs' = Append(objs, NewJob(ret.jobId, k, at, msg))
         /\ sendCount' = Append(sendCount, 0)
         /\ jobs' = JobsSet(jobs, ret.jobId, ref)
         /\ idempotencyIndex' = [idempotencyIndex EXCEPT ![k] = ret.jobId]
         /\ timer' = ensureTimerRunning.timer
         /\ intervals' = ensureTimerRunning.intervals
         /\ firstSched' = [firstSched EXCEPT ![k] = ret.jobId]
         /\ UNCHANGED <<now, provider, sweeps, limVars, toolVars, appVars>>
    /\ lastCall' = [op |-> "schedule", key |-> k, message |-> msg,
                    mapped |-> idempotencyIndex[k] # NoId,
                    ret |-> ret, wasRunning |-> timer,
                    same |-> /\ jobs' = jobs
                             /\ objs' = objs
                             /\ idempotencyIndex' = idempotencyIndex]

\* getJob(jobId), as the job object's reference (0: undefined).
getJob(id) == JobsGet(jobs, id)

CancelReturn_IgnoresStatus(id) == JobsGet(jobs, id) # 0

\* What cancel(jobId) returns.
CancelReturn(id) ==
    LET ref == JobsGet(jobs, id) IN
    ~(ref = 0 \/ objs[ref].status # "pending")

Cancel_DropsEveryKey(id) ==
    LET ref == JobsGet(jobs, id) IN
    /\ IF ~CancelReturn(id)
       THEN UNCHANGED <<jobs, idempotencyIndex, firstSched>>
       ELSE /\ jobs' = JobsDelete(jobs, id)
            /\ idempotencyIndex' = [k \in Keys |-> NoId]
            /\ firstSched' = [k \in Keys |-> NoId]
    /\ lastCall' =
           [op |-> "cancel",
            ret |-> CancelReturn(id),
            wasPending |-> \E i \in 1..Len(jobs) :
                              /\ jobs[i] # EmptySlot
                              /\ jobs[i].id = id
                              /\ objs[jobs[i].ref].status = "pending",
            same |-> jobs' = jobs /\ idempotencyIndex' = idempotencyIndex,
            id |-> IF CancelReturn(id) THEN id ELSE NoId,
            key |-> IF CancelReturn(id) THEN objs[ref].idempotencyKey ELSE 0]
    /\ UNCHANGED <<now, objs, timer, intervals, provider, sweeps, sendCount,
                   limVars, toolVars, appVars>>

\* cancel(jobId).  lastCall records what it returned, whether the table
\* held a pending job under jobId when it was called, whether it left table
\* and index as they were and, when it returned true, the jobId and the
\* idempotency key of the job it found.
Cancel(id) ==
    LET ref == JobsGet(jobs, id) IN
    /\ IF ~CancelReturn(id)
       THEN UNCHANGED <<jobs, idempotencyIndex, firstSched>>
       ELSE /\ jobs' = JobsDelete(jobs, id)
            /\ idempotencyIndex' =
                   [idempotencyIndex EXCEPT ![objs[ref].idempotencyKey] = NoId]
            /\ firstSched' = [k \in Keys |-> NoId]
    /\ lastCall' =
           [op |-> "cancel",
            ret |-> CancelReturn(id),
            wasPending |-> \E i \in 1..Len(jobs) :
                              /\ jobs[i] # EmptySlot
                              /\ jobs[i].id = id
                              /\ objs[jobs[i].ref].status = "pending",
            same |-> jobs' = jobs /\ idempotencyIndex' = idempotencyIndex,
            id |-> IF CancelReturn(id) THEN id ELSE NoId,
            key |-> IF CancelReturn(id) THEN objs[ref].idempotencyKey ELSE 0]
    /\ UNCHANGED <<now, objs, timer, intervals, provider, sweeps, sendCount,
                   limVars, toolVars, appVars>>

getPendingJobs_KeepsFailed ==
    LET values == SelectSeq(jobs, LAMBDA e : e # EmptySlot)
        kept == SelectSeq(values, LAMBDA e : objs[e.ref].status # "executed")
    IN [n \in 1..Len(kept) |-> kept[n].ref]

\* getPendingJobs(): Array.from(this.jobs.values()).filter(pending), as the
\* list of the job objects' references.
getPendingJobs ==
    LET values == SelectSeq(jobs, LAMBDA e : e # EmptySlot)
        kept == SelectSeq(values, LAMBDA e : objs[e.ref].status = "pending")
    IN [n \in 1..Len(kept) |-> kept[n].ref]

\* clear()
Clear ==
    /\ jobs' = JobsClear(jobs)
    /\ idempotencyIndex' = [k \in Keys |-> NoId]
    /\ firstSched' = [k \in Keys |-> NoId]
    /\ lastCall' = NoCall
    /\ UNCHANGED <<now, objs, timer, intervals, provider, sweeps, sendCount,
                   limVars, toolVars, appVars>>

\* start(): ensureTimerRunning().  lastCall records whether the timer
\* was running and whether the call left timer and intervals as they were.
Start ==
    /\ timer' = ensureTimerRunning.timer
    /\ intervals' = ensureTimerRunning.intervals
    /\ lastCall' = [op |-> "start", wasRunning |-> timer,
                    same |-> timer' = timer /\ intervals' = intervals]
    /\ UNCHANGED <<now, jobs, objs, idempotencyIndex, provider, sweeps,
                   sendCount, firstSched, limVars, toolVars, appVars>>

\* stop(): `if (this.timer)`, clearInterval(this.timer) and this.timer =
\* null.  lastCall records the same as for start().
Stop ==
    /\ IF timer
       THEN /\ timer' = FALSE
            /\ intervals' = intervals - 1
       ELSE UNCHANGED <<timer, intervals>>
    /\ lastCall' = [op |-> "stop", wasRunning |-> timer,
                    same |-> timer' = timer /\ intervals' = intervals]
    /\ UNCHANGED <<now, jobs, objs, idempotencyIndex, provider, sweeps,
                   sendCount, firstSched, limVars, toolVars, appVars>>

TimerTick_NoProviderCheck ==
    /\ intervals > 0
    /\ LET i == NextDue(jobs, objs, 0, now) IN
       IF i = 0
       THEN UNCHANGED <<sweeps, sendCount>>
       ELSE /\ BagCardinality(sweeps) < MaxInFlight
            /\ sweeps' = sweeps (+) SetToBag({[now |-> now, pos |-> i,
                                               ref |-> jobs[i].ref]})
            /\ sendCount' = [sendCount EXCEPT ![jobs[i].ref] = @ + 1]
    /\ lastCall' = [op |-> "tick", provider |-> provider,
                    began |-> sendCount' # sendCount]
    /\ UNCHANGED <<now, jobs, objs, idempotencyIndex, timer, intervals,
                   provider, firstSched, limVars, toolVars, appVars>>

\* An active interval timer fires and calls processJobs(), which runs to
\* its first `await this.provider.send(job.request)` or to its end.  The
\* timer fires whether or not an earlier processJobs() call is still
\* suspended.  lastCall records whether a provider was set and whether the
\* call began a delivery.
TimerTick ==
    /\ intervals > 0
    /\ IF ~provider
       THEN UNCHANGED <<sweeps, sendCount>>
       ELSE LET i == NextDue(jobs, objs, 0, now) IN
            IF i = 0
            THEN UNCHANGED <<sweeps, sendCount>>
            ELSE /\ BagCardinality(sweeps) < MaxInFlight
                 /\ sweeps' = sweeps (+) SetToBag({[now |-> now, pos |-> i,
                                                    ref |-> jobs[i].ref]})
                 /\ sendCount' = [sendCount EXCEPT ![jobs[i].ref] = @ + 1]
    /\ lastCall' = [op |-> "tick", provider |-> provider,
                    began |-> sendCount' # sendCount]
    /\ UNCHANGED <<now, jobs, objs, idempotencyIndex, timer, intervals,
                   provider, firstSched, limVars, toolVars, appVars>>

Settle_FailureLeavesPending(job, outcome) ==
    IF outcome = "sent"
    THEN [job EXCEPT !.status = "executed", !.executedAt = now]
    ELSE job

\* What processJobs writes to the job once the awaited send has settled.
Settle(job, outcome) ==
    CASE outcome = "sent" ->
            [job EXCEPT !.status = "executed", !.executedAt = now]
      [] outcome = "failed" ->
            [job EXCEPT !.status = "failed", !.error = "Unknown error"]
      [] OTHER ->
            [job EXCEPT !.status = "failed", !.error = "Unknown error"]

\* How an awaited send settles: resolved with status 'sent', resolved with
\* another status and no error text, or rejected with a value that is not
\* an Error.
Outcomes == {"sent", "failed", "throw"}

Resolve_FailureStopsTick(sw, outcome) ==
    LET heap == [objs EXCEPT ![sw.ref] = Settle(@, outcome)]
        i == IF outcome = "sent"
             THEN NextDue(jobs, heap, sw.pos, sw.now) ELSE 0
    IN
    /\ objs' = heap
    /\ lastCall' = [op |-> "resolve", ref |-> sw.ref,
                    inTable |-> JobsGet(jobs, objs[sw.ref].id) = sw.ref,
                    next |-> i]
    /\ IF i = 0
       THEN /\ sweeps' = sweeps (-) SetToBag({sw})
            /\ UNCHANGED sendCount
       ELSE /\ sweeps' = (sweeps (-) SetToBag({sw}))
                             (+) SetToBag({[now |-> sw.now, pos |-> i,
                                            ref |-> jobs[i].ref]})
            /\ sendCount' = [sendCount EXCEPT ![jobs[i].ref] = @ + 1]
    /\ UNCHANGED <<now, jobs, idempotencyIndex, timer, intervals, provider,
                   firstSched, limVars, toolVars, appVars>>

\* The send awaited by a suspended processJobs() call sw settles: the job
\* object it holds is written, and the loop goes on to its next await or
\* to its end.  lastCall records the job object written, whether the
\* table held it under its jobId when the send settled, and the entry
\* whose send the loop awaits next (0: the loop ended).
Resolve(sw, outcome) ==
    LET heap == [objs EXCEPT ![sw.ref] = Settle(@, outcome)]
        i == NextDue(jobs, heap, sw.pos, sw.now)
    IN
    /\ objs' = heap
    /\ lastCall' = [op |-> "resolve", ref |-> sw.ref,
                    inTable |-> JobsGet(jobs, objs[sw.ref].id) = sw.ref,
                    next |-> i]
    /\ IF i = 0
       THEN /\ sweeps' = sweeps (-) SetToBag({sw})
            /\ UNCHANGED sendCount
       ELSE /\ sweeps' = (sweeps (-) SetToBag({sw}))
                             (+) SetToBag({[now |-> sw.now, pos |-> i,
                                            ref |-> jobs[i].ref]})
            /\ sendCount' = [sendCount EXCEPT ![jobs[i].ref] = @ + 1]
    /\ UNCHANGED <<now, jobs, idempotencyIndex, timer, intervals, provider,
                   firstSched, limVars, toolVars, appVars>>

\* Time passes.
Tick ==
    /\ now < MaxTime
    /\ now' = now + 1
    /\ lastCall' = NoCall
    /\ UNCHANGED <<schedVars, limVars, toolVars, appVars>>

Next ==
    \/ SetProvider
    \/ \E k \in UsableKeys(objs), at \in ExecuteAts,
          msg \in UsableMessages(objs), c \in BOOLEAN,
          r \in RandomVals(objs, now) : Schedule(k, at, msg, c, r)
    \/ \E id \in JobIds : Cancel(id)
    \/ Clear
    \/ Start
    \/ Stop
    \/ TimerTick
    \/ \E sw \in BagToSet(sweeps), o \in Outcomes : Resolve(sw, o)
    \/ Tick

Spec == Init /\ [][Next]_vars

\* The scheduler without clear().
NextNoClear ==
    \/ SetProvider
    \/ \E k \in UsableKeys(objs), at \in ExecuteAts,
          msg \in UsableMessages(objs), c \in BOOLEAN,
          r \in RandomVals(objs, now) : Schedule(k, at, msg, c, r)
    \/ \E id \in JobIds : Cancel(id)
    \/ Start
    \/ Stop
    \/ TimerTick
    \/ \E sw \in BagToSet(sweeps), o \in Outcomes : Resolve(sw, o)
    \/ Tick

SpecNoClear == Init /\ [][NextNoClear]_vars

\* The scheduler whose timer, once started, is never stopped.  The interval
\* timer keeps firing and every promise provider.send returned settles.
LiveNext ==
    \/ SetProvider
    \/ \E k \in UsableKeys(objs), at \in ExecuteAts,
          msg \in UsableMessages(objs), c \in BOOLEAN,
          r \in RandomVals(objs, now) : Schedule(k, at, msg, c, r)
    \/ \E id \in JobIds : Cancel(id)
    \/ Clear
    \/ Start
    \/ TimerTick
    \/ \E sw \in BagToSet(sweeps), o \in Outcomes : Resolve(sw, o)
    \/ Tick

LiveSpec ==
    /\ Init
    /\ [][LiveNext]_vars
    /\ WF_vars(TimerTick)
    /\ WF_vars(\E sw \in BagToSet(sweeps), o \in Outcomes : Resolve(sw, o))

\* ------------------------------------------------------------ rate limiter

Expired_NeverRollsOver(entry, t) == entry = NoEntry

\* `!entry || now > entry.resetAt`
Expired(entry, t) == entry = NoEntry \/ t > entry.resetAt

CheckResult_CountsBeforeIncrement(tbl, k, t) ==
    IF Expired(tbl[k], t)
    THEN [allowed |-> TRUE, remaining |-> MaxRequests - 1,
          resetAt |-> t + WindowMs]
    ELSE IF tbl[k].count >= MaxRequests
    THEN [allowed |-> FALSE, remaining |-> 0, resetAt |-> tbl[k].resetAt]
    ELSE [allowed |-> TRUE, remaining |-> MaxRequests - tbl[k].count,
          resetAt |-> tbl[k].resetAt]

\* What check(key) returns at time t.
CheckResult(tbl, k, t) ==
    IF Expired(tbl[k], t)
    THEN [allowed |-> TRUE, remaining |-> MaxRequests - 1,
          resetAt |-> t + WindowMs]
    ELSE IF tbl[k].count >= MaxRequests
    THEN [allowed |-> FALSE, remaining |-> 0, resetAt |-> tbl[k].resetAt]
    ELSE [allowed |-> TRUE, remaining |-> MaxRequests - (tbl[k].count + 1),
          resetAt |-> tbl[k].resetAt]

CheckLimits_CountsRejected(tbl, k, t) ==
    IF Expired(tbl[k], t)
    THEN [tbl EXCEPT ![k] = [count |-> 1, resetAt |-> t + WindowMs]]
    ELSE [tbl EXCEPT ![k].count = @ + 1]

CheckLimits_ResetsOthers(tbl, k, t) ==
    [j \in LimKeys |->
        IF j # k THEN NoEntry
        ELSE IF Expired(tbl[k], t)
        THEN [count |-> 1, resetAt |-> t + WindowMs]
        ELSE IF tbl[k].count >= MaxRequests THEN tbl[k]
        ELSE [tbl[k] EXCEPT !.count = @ + 1]]

CheckLimits_RejectionExtendsWindow(tbl, k, t) ==
    IF Expired(tbl[k], t)
    THEN [tbl EXCEPT ![k] = [count |-> 1, resetAt |-> t + WindowMs]]
    ELSE IF tbl[k].count >= MaxRequests
    THEN [tbl EXCEPT ![k].resetAt = t + WindowMs]
    ELSE [tbl EXCEPT ![k].count = @ + 1]

\* The entry table check(key) leaves at time t.
CheckLimits(tbl, k, t) ==
    IF Expired(tbl[k], t)
    THEN [tbl EXCEPT ![k] = [count |-> 1, resetAt |-> t + WindowMs]]
    ELSE IF tbl[k].count >= MaxRequests
    THEN tbl
    ELSE [tbl EXCEPT ![k].count = @ + 1]

PeekResult_AllowsAtLimit(tbl, k, t) ==
    IF Expired(tbl[k], t)
    THEN [allowed |-> TRUE, remaining |-> MaxRequests,
          resetAt |-> t + WindowMs]
    ELSE [allowed |-> tbl[k].count <= MaxRequests,
          remaining |-> IF MaxRequests - tbl[k].count > 0
                        THEN MaxRequests - tbl[k].count ELSE 0,
          resetAt |-> tbl[k].resetAt]

\* What peek(key) returns at time t.
PeekResult(tbl, k, t) ==
    IF Expired(tbl[k], t)
    THEN [allowed |-> TRUE, remaining |-> MaxRequests,
          resetAt |-> t + WindowMs]
    ELSE [allowed |-> tbl[k].count < MaxRequests,
          remaining |-> IF MaxRequests - tbl[k].count > 0
                        THEN MaxRequests - tbl[k].count ELSE 0,
          resetAt |-> tbl[k].resetAt]

PeekLimits_CreatesEntry(tbl, k, t) ==
    IF Expired(tbl[k], t)
    THEN [tbl EXCEPT ![k] = [count |-> 0, resetAt |-> t + WindowMs]]
    ELSE tbl

\* The entry table peek(key) leaves: peek writes nothing.
PeekLimits(tbl, k, t) == tbl

ResetLimits_ZeroesCount(tbl, k) ==
    IF tbl[k] = NoEntry THEN tbl ELSE [tbl EXCEPT ![k].count = 0]

\* reset(key): limits.delete(key)
ResetLimits(tbl, k) == [tbl EXCEPT ![k] = NoEntry]

\* clear(): limits.clear()
ClearLimits(tbl) == [k \in LimKeys |-> NoEntry]

\* size: the number of keys with an entry.
size(tbl) == Cardinality({k \in LimKeys : tbl[k] # NoEntry})

CleanupLimits_DeletesAtResetAt(tbl, t) ==
    [k \in LimKeys |->
        IF tbl[k] # NoEntry /\ t >= tbl[k].resetAt THEN NoEntry ELSE tbl[k]]

\* cleanup(): every entry with now > resetAt is deleted.
CleanupLimits(tbl, t) ==
    [k \in LimKeys |->
        IF tbl[k] # NoEntry /\ t > tbl[k].resetAt THEN NoEntry ELSE tbl[k]]

\* The times of the log that are later than t - windowMs.
RECURSIVE Recent(_, _)
Recent(log, t) ==
    IF log = <<>> THEN <<>>
    ELSE IF Head(log) > t - WindowMs THEN log
    ELSE Recent(Tail(log), t)

\* check(key) at the current time.
Check(k) ==
    LET res == CheckResult(limits, k, now)
        after == CheckLimits(limits, k, now)
        created == limits[k] = NoEntry \/ after[k].resetAt # limits[k].resetAt
    IN
    /\ limits' = after
    /\ windowStart' = IF created THEN [windowStart EXCEPT ![k] = now]
                      ELSE windowStart
    /\ callsInWindow' =
           IF created THEN [callsInWindow EXCEPT ![k] = 1]
           ELSE [callsInWindow EXCEPT
                    ![k] = IF @ > MaxRequests THEN @ ELSE @ + 1]
    /\ allowedLog' =
           IF res.allowed
           THEN [allowedLog EXCEPT ![k] = Append(Recent(@, now), now)]
           ELSE allowedLog
    /\ unswept' = CheckLimits(unswept, k, now)
    /\ lastResult' = [op |-> "check", key |-> k, at |-> now,
                      before |-> limits, started |-> windowStart[k],
                      calls |-> callsInWindow[k], result |-> res,
                      unswept |-> CheckResult(unswept, k, now)]
    /\ UNCHANGED <<now, schedVars, lastCall, toolVars, appVars>>

\* peek(key) at the current time.
Peek(k) ==
    /\ limits' = PeekLimits(limits, k, now)
    /\ lastResult' = [op |-> "peek", key |-> k, at |-> now,
                      before |-> limits, started |-> windowStart[k],
                      calls |-> callsInWindow[k],
                      result |-> PeekResult(limits, k, now),
                      unswept |-> PeekResult(unswept, k, now)]
    /\ unswept' = PeekLimits(unswept, k, now)
    /\ UNCHANGED <<now, schedVars, lastCall, toolVars, appVars, windowStart,
                   callsInWindow, allowedLog>>

\* reset(key)
Reset(k) ==
    /\ limits' = ResetLimits(limits, k)
    /\ windowStart' = [j \in LimKeys |->
                          IF limits'[j] = NoEntry THEN NoTime ELSE windowStart[j]]
    /\ callsInWindow' = [j \in LimKeys |->
                            IF limits'[j] = NoEntry THEN 0 ELSE callsInWindow[j]]
    /\ allowedLog' = [allowedLog EXCEPT ![k] = <<>>]
    /\ lastResult' = [op |-> "reset", key |-> k, at |-> now, before |-> limits]
    /\ unswept' = ResetLimits(unswept, k)
    /\ UNCHANGED <<now, schedVars, lastCall, toolVars, appVars>>

\* clear() of the limiter
LimClear ==
    /\ limits' = ClearLimits(limits)
    /\ windowStart' = [j \in LimKeys |-> NoTime]
    /\ callsInWindow' = [j \in LimKeys |-> 0]
    /\ allowedLog' = [j \in LimKeys |-> <<>>]
    /\ lastResult' = [op |-> "clear"]
    /\ unswept' = ClearLimits(unswept)
    /\ UNCHANGED <<now, schedVars, lastCall, toolVars, appVars>>

\* cleanup(), called by the limiter's interval timer or directly.
Cleanup ==
    /\ limits' = CleanupLimits(limits, now)
    /\ windowStart' = [j \in LimKeys |->
                          IF limits'[j] = NoEntry THEN NoTime ELSE windowStart[j]]
    /\ callsInWindow' = [j \in LimKeys |->
                            IF limits'[j] = NoEntry THEN 0 ELSE callsInWindow[j]]
    /\ lastResult' = [op |-> "cleanup"]
    /\ UNCHANGED <<now, schedVars, lastCall, toolVars, appVars, allowedLog,
                   unswept>>

\* Time passes.
LimTick ==
    /\ now < LimMaxTime
    /\ now' = now + 1
    /\ allowedLog' = [k \in LimKeys |-> Recent(allowedLog[k], now + 1)]
    /\ UNCHANGED <<schedVars, limits, windowStart, callsInWindow, lastResult,
                   unswept, lastCall, toolVars, appVars>>

LimNext ==
    \/ \E k \in LimKeys : Check(k)
    \/ \E k \in LimKeys : Peek(k)
    \/ \E k \in LimKeys : Reset(k)
    \/ LimClear
    \/ Cleanup
    \/ LimTick

LimSpec == Init /\ [][LimNext]_vars

\* ------------------------------------------------------------- tool layer

\* The scheduler's state a tool request may change.
Scheduler == <<jobs, objs, idempotencyIndex, timer, intervals>>

\* futureDateTimeSchema: `date > new Date()`.
IsFuture(at, t) == at > t

\* MockNotificationProvider.send(request); `fails` is
\* Math.random() < failureRate.
MockSend(confirm, fails) ==
    IF ~confirm THEN [status |-> "requires_confirmation", error |-> NoError,
                      stored |-> FALSE]
    ELSE IF fails THEN [status |-> "failed", error |-> "MOCK_DELIVERY_FAILED",
                        stored |-> FALSE]
    ELSE [status |-> "sent", error |-> NoError, stored |-> TRUE]

\* The values generateExecutionId() may draw at time t, numbered like
\* those of generateJobId().
ExecRandomVals(t) ==
    1..(Cardinality({e \in sentNotifications : e.ts = t}) + 1)

\* The response of handleScheduleNotification, by the step the handler
\* returns from; ret is what scheduler.schedule() would return.
ScheduleResponse(at, rate, valid, confirm, ret) ==
    IF ~IsFuture(at, now)
    THEN [status |-> "failed", error |-> "VALIDATION_ERROR"]
    ELSE IF ~rate.allowed
    THEN [status |-> "failed", error |-> "RATE_LIMIT_EXCEEDED"]
    ELSE IF ~valid
    THEN [status |-> "failed", error |-> "INVALID_TARGET"]
    ELSE IF ~confirm
    THEN [status |-> "requires_confirmation", error |-> NoError]
    ELSE [status |-> "scheduled", error |-> NoError,
          jobId |-> ret.jobId, isNew |-> ret.isNew]

HandleScheduleNotification_SchedulesFirst(target, k, at, msg, confirm, valid, r) ==
    LET rate == CheckResult(limits, target, now)
        ret == ScheduleReturn(k, r)
        resp == ScheduleResponse(at, rate, valid, confirm, ret)
        parsed == IsFuture(at, now)
    IN
    /\ limits' = IF parsed THEN CheckLimits(limits, target, now) ELSE limits
    /\ IF ~parsed
       THEN UNCHANGED <<jobs, objs, idempotencyIndex, timer, intervals,
                        provider, sendCount, firstSched>>
       ELSE /\ provider' = TRUE
            /\ timer' = ensureTimerRunning.timer
            /\ intervals' = ensureTimerRunning.intervals
            /\ firstSched' = [firstSched EXCEPT ![k] = ret.jobId]
            /\ IF ~ret.isNew
               THEN UNCHANGED <<jobs, objs, idempotencyIndex, sendCount>>
               ELSE /\ Len(objs) < MaxJobs
                    /\ objs' = Append(objs, NewJob(ret.jobId, k, at, msg))
                    /\ sendCount' = Append(sendCount, 0)
                    /\ jobs' = JobsSet(jobs, ret.jobId, Len(objs) + 1)
                    /\ idempotencyIndex' =
                           [idempotencyIndex EXCEPT ![k] = ret.jobId]
    /\ lastCall' = [op |-> "schedule_notification", confirm |-> confirm,
                    key |-> k, known |-> firstSched[k],
                    accepted |-> parsed /\ rate.allowed /\ valid,
                    rateChecked |-> parsed,
                    rateAllowed |-> parsed /\ rate.allowed,
                    response |-> resp,
                    touched |-> Scheduler' # Scheduler,
                    invoked |-> FALSE, stored |-> FALSE]
    /\ UNCHANGED <<now, sweeps, windowStart, callsInWindow, allowedLog,
                   lastResult, unswept, toolVars, appVars>>

\* handleScheduleNotification(args, provider): the input is parsed, the
\* scheduleRateLimiter is asked for `schedule:${target_id}`, the provider
\* validates the target, and a confirmed request sets the provider, starts
\* the scheduler and calls scheduler.schedule().  Every error is caught and
\* returned as a response.  `valid` is what provider.validateTarget
\* resolves to, r what generateJobId() draws.  lastCall records the
\* request, the jobId an earlier response gave for its key, how far the
\* request got, the response, and whether the scheduler's job table,
\* index or timer changed.
HandleScheduleNotification(target, k, at, msg, confirm, valid, r) ==
    LET rate == CheckResult(limits, target, now)
        ret == ScheduleReturn(k, r)
        resp == ScheduleResponse(at, rate, valid, confirm, ret)
        parsed == IsFuture(at, now)
    IN
    /\ limits' = IF parsed THEN CheckLimits(limits, target, now) ELSE limits
    /\ IF resp.status # "scheduled"
       THEN UNCHANGED <<jobs, objs, idempotencyIndex, timer, intervals,
                        provider, sendCount, firstSched>>
       ELSE /\ provider' = TRUE
            /\ timer' = ensureTimerRunning.timer
            /\ intervals' = ensureTimerRunning.intervals
            /\ firstSched' = [firstSched EXCEPT ![k] = ret.jobId]
            /\ IF ~ret.isNew
               THEN UNCHANGED <<jobs, objs, idempotencyIndex, sendCount>>
               ELSE /\ Len(objs) < MaxJobs
                    /\ objs' = Append(objs, NewJob(ret.jobId, k, at, msg))
                    /\ sendCount' = Append(sendCount, 0)
                    /\ jobs' = JobsSet(jobs, ret.jobId, Len(objs) + 1)
                    /\ idempotencyIndex' =
                           [idempotencyIndex EXCEPT ![k] = ret.jobId]
    /\ lastCall' = [op |-> "schedule_notification", confirm |-> confirm,
                    key |-> k, known |-> firstSched[k],
                    accepted |-> parsed /\ rate.allowed /\ valid,
                    rateChecked |-> parsed,
                    rateAllowed |-> parsed /\ rate.allowed,
                    response |-> resp,
                    touched |-> Scheduler' # Scheduler,
                    invoked |-> FALSE, stored |-> FALSE]
    /\ UNCHANGED <<now, sweeps, windowStart, callsInWindow, allowedLog,
                   lastResult, unswept, toolVars, appVars>>

\* The response of handleSendNotification; sent is what provider.send
\* resolved to.
SendResponse(rate, valid, sent) ==
    IF ~rate.allowed
    THEN [status |-> "failed", error |-> "RATE_LIMIT_EXCEEDED"]
    ELSE IF ~valid
    THEN [status |-> "failed", error |-> "INVALID_TARGET"]
    ELSE [status |-> sent.status, error |-> sent.error]

HandleSendNotification_StoresDryRun(target, confirm, valid, fails, r) ==
    LET rate == CheckResult(defaultLimits, target, now)
        sent == MockSend(TRUE, fails)
        resp == SendResponse(rate, valid, MockSend(confirm, fails))
        reached == rate.allowed /\ valid
    IN
    /\ defaultLimits' = CheckLimits(defaultLimits, target, now)
    /\ sentNotifications' =
           IF reached /\ sent.stored
           THEN sentNotifications \cup {[ts |-> now, rnd |-> r]}
           ELSE sentNotifications
    /\ lastCall' = [op |-> "send_notification", confirm |-> confirm,
                    key |-> 0, known |-> NoId,
                    accepted |-> reached,
                    rateChecked |-> TRUE,
                    rateAllowed |-> rate.allowed,
                    response |-> resp,
                    touched |-> FALSE,
                    invoked |-> reached,
                    stored |-> sentNotifications' # sentNotifications]
    /\ UNCHANGED <<now, schedVars, limVars, appVars>>

\* handleSendNotification(args, provider): the defaultRateLimiter is asked
\* for `notification:${target_id}`, the provider validates the target and
\* provider.send is awaited with the request's confirm flag.  r is what
\* generateExecutionId() draws.  lastCall records the request, how far it
\* got, the response, whether provider.send was called and whether the
\* provider stored a notification.
HandleSendNotification(target, confirm, valid, fails, r) ==
    LET rate == CheckResult(defaultLimits, target, now)
        sent == MockSend(confirm, fails)
        resp == SendResponse(rate, valid, sent)
        reached == rate.allowed /\ valid
    IN
    /\ defaultLimits' = CheckLimits(defaultLimits, target, now)
    /\ sentNotifications' =
           IF reached /\ sent.stored
           THEN sentNotifications \cup {[ts |-> now, rnd |-> r]}
           ELSE sentNotifications
    /\ lastCall' = [op |-> "send_notification", confirm |-> confirm,
                    key |-> 0, known |-> NoId,
                    accepted |-> reached,
                    rateChecked |-> TRUE,
                    rateAllowed |-> rate.allowed,
                    response |-> resp,
                    touched |-> FALSE,
                    invoked |-> reached,
                    stored |-> sentNotifications' # sentNotifications]
    /\ UNCHANGED <<now, schedVars, limVars, appVars>>

\* The two tool handlers over the shared scheduler and limiters: tool
\* requests, cancel and clear, and time.
ToolNext ==
    \/ \E target \in Targets, k \in UsableKeys(objs), at \in ToolExecuteAts,
          msg \in UsableMessages(objs), confirm \in BOOLEAN,
          valid \in BOOLEAN, r \in RandomVals(objs, now) :
            HandleScheduleNotification(target, k, at, msg, confirm, valid, r)
    \/ \E target \in Targets, confirm \in BOOLEAN, valid \in BOOLEAN,
          fails \in BOOLEAN, r \in ExecRandomVals(now) :
            HandleSendNotification(target, confirm, valid, fails, r)
    \/ \E id \in JobIds : Cancel(id)
    \/ Clear
    \/ Tick

ToolSpec == Init /\ [][ToolNext]_vars

\* The schedule_notification handler and the scheduler it feeds: tool
\* requests, cancel and clear, the scheduler's timer and its awaited sends,
\* and time.
SchedToolNext ==
    \/ \E target \in Targets, k \in UsableKeys(objs), at \in ToolExecuteAts,
          msg \in UsableMessages(objs), confirm \in BOOLEAN,
          valid \in BOOLEAN, r \in RandomVals(objs, now) :
            HandleScheduleNotification(target, k, at, msg, confirm, valid, r)
    \/ \E id \in JobIds : Cancel(id)
    \/ Clear
    \/ TimerTick
    \/ \E sw \in BagToSet(sweeps), o \in Outcomes : Resolve(sw, o)
    \/ Tick

SchedToolSpec == Init /\ [][SchedToolNext]_vars

\* -------------------------------------------------------------- calendar

\* The rate-limit key 'calendar:create' of handleCreateEvent in the
\* defaultRateLimiter, whose other keys are the notification targets'.
CalendarKey == "b"

EventTimes == 0..MaxEventTime

\* generateId('evt'): `evt_${Date.now().toString(36)}_${random}`.
generateEventId(t, r) == [ts |-> t, rnd |-> r]

EventIds == {generateEventId(0, r) : r \in 1..MaxEvents}

\* The values the random part of generateEventId() may take at time t: one
\* of a stored event of that millisecond, or a new one.
EventRandomVals(t) ==
    1..(Cardinality({e \in events : e.eventId.ts = t}) + 1)

\* checkConflict(startAt, endAt): some stored record overlaps the range.
checkConflict(evs, startAt, endAt) ==
    \E record \in evs : startAt < record.endAt /\ endAt > record.startAt

\* this.events.set(eventId, record)
EventsSet(evs, record) ==
    {e \in evs : e.eventId # record.eventId} \cup {record}

\* this.events.delete(eventId)
EventsDelete(evs, id) == {e \in evs : e.eventId # id}

\* A call suspended in `await ...checkConflict(startAt, endAt)`: in
\* handleCreateEvent (pc "handler") or in createEvent (pc "createEvent").
Suspended(pc, startAt, endAt) ==
    [pc |-> pc, startAt |-> startAt, endAt |-> endAt,
     hasConflict |-> checkConflict(events, startAt, endAt)]

\* createEvent(request), called by a test or another caller of the
\* provider, up to its first await: a dry run and a simulated failure
\* return at once, any other request calls checkConflict, which reads
\* this.events before the call is suspended.  `fails` is
\* Math.random() < failureRate.
CreateEvent(startAt, endAt, confirm, fails) ==
    /\ IF ~confirm \/ fails
       THEN UNCHANGED creating
       ELSE /\ BagCardinality(creating) < MaxCreating
            /\ creating' = creating (+)
                               SetToBag({Suspended("createEvent", startAt, endAt)})
    /\ lastCall' = [op |-> "createEvent",
                    status |-> IF ~confirm THEN "requires_confirmation"
                               ELSE IF fails THEN "failed" ELSE "suspended",
                    error |-> IF confirm /\ fails THEN "MOCK_CALENDAR_ERROR"
                              ELSE NoError]
    /\ UNCHANGED <<now, schedVars, limVars, toolVars, events, rpVars>>

\* createEvent(request) after `await this.checkConflict(...)`: a conflict
\* returns SCHEDULE_CONFLICT, otherwise the record is stored under a new
\* eventId.  r is what generateEventId() draws.
CreateEventResume(call, r) ==
    /\ call.pc = "createEvent"
    /\ creating' = creating (-) SetToBag({call})
    /\ IF call.hasConflict
       THEN /\ UNCHANGED events
            /\ lastCall' = [op |-> "createEvent", status |-> "failed",
                            error |-> "SCHEDULE_CONFLICT"]
       ELSE /\ Cardinality(events) < MaxEvents
            /\ events' = EventsSet(events,
                                   [eventId |-> generateEventId(now, r),
                                    startAt |-> call.startAt,
                                    endAt |-> call.endAt])
            /\ lastCall' = [op |-> "createEvent", status |-> "created",
                            error |-> NoError]
    /\ UNCHANGED <<now, schedVars, limVars, toolVars, rpVars>>

\* createEventInputSchema: end_at is after start_at and start_at is in the
\* future.  (No range of EventTimes is longer than the 7 days the schema
\* allows.)
ValidEvent(startAt, endAt, t) == endAt > startAt /\ startAt > t

\* handleCreateEvent(args, provider) up to its first await: the input is
\* parsed, the defaultRateLimiter is asked for 'calendar:create', and a
\* confirmed request calls provider.checkConflict and is suspended; a dry
\* run calls provider.createEvent, which returns requires_confirmation.
HandleCreateEvent(startAt, endAt, confirm) ==
    LET parsed == ValidEvent(startAt, endAt, now)
        rate == CheckResult(defaultLimits, CalendarKey, now)
    IN
    /\ defaultLimits' = IF parsed
                        THEN CheckLimits(defaultLimits, CalendarKey, now)
                        ELSE defaultLimits
    /\ IF parsed /\ rate.allowed /\ confirm
       THEN /\ BagCardinality(creating) < MaxCreating
            /\ creating' = creating (+)
                               SetToBag({Suspended("handler", startAt, endAt)})
       ELSE UNCHANGED creating
    /\ lastCall' = [op |-> "create_event",
                    status |-> IF ~parsed \/ ~rate.allowed THEN "failed"
                               ELSE IF ~confirm THEN "requires_confirmation"
                               ELSE "suspended",
                    error |-> IF ~parsed THEN "VALIDATION_ERROR"
                              ELSE IF ~rate.allowed THEN "RATE_LIMIT_EXCEEDED"
                              ELSE NoError]
    /\ UNCHANGED <<now, schedVars, limVars, sentNotifications, events,
                   rpVars>>

\* handleCreateEvent after `await provider.checkConflict(...)`: a conflict
\* returns SCHEDULE_CONFLICT, otherwise provider.createEvent is called with
\* confirm = true and runs up to its own await.
HandleCreateEventResume(call, fails) ==
    /\ call.pc = "handler"
    /\ creating' =
           IF call.hasConflict \/ fails
           THEN creating (-) SetToBag({call})
           ELSE (creating (-) SetToBag({call})) (+)
                    SetToBag({Suspended("createEvent", call.startAt,
                                        call.endAt)})
    /\ lastCall' = [op |-> "create_event",
                    status |-> IF call.hasConflict \/ fails THEN "failed"
                               ELSE "suspended",
                    error |-> IF call.hasConflict THEN "SCHEDULE_CONFLICT"
                              ELSE IF fails THEN "MOCK_CALENDAR_ERROR"
                              ELSE NoError]
    /\ UNCHANGED <<now, schedVars, limVars, toolVars, events, rpVars>>

\* deleteEvent(eventId)
DeleteEvent(id) ==
    /\ events' = EventsDelete(events, id)
    /\ lastCall' = [op |-> "deleteEvent",
                    ret |-> \E e \in events : e.eventId = id]
    /\ UNCHANGED <<now, schedVars, limVars, toolVars, creating, rpVars>>

\* The calendar provider and the create_event handler within one
\* millisecond: requests, the continuations of the suspended calls, and
\* deleteEvent.
CalNext ==
    \/ \E startAt \in EventTimes, endAt \in EventTimes, confirm \in BOOLEAN,
          fails \in BOOLEAN : CreateEvent(startAt, endAt, confirm, fails)
    \/ \E call \in BagToSet(creating), r \in EventRandomVals(now) :
          CreateEventResume(call, r)
    \/ \E startAt \in EventTimes, endAt \in EventTimes, confirm \in BOOLEAN :
          HandleCreateEvent(startAt, endAt, confirm)
    \/ \E call \in BagToSet(creating), fails \in BOOLEAN :
          HandleCreateEventResume(call, fails)
    \/ \E id \in EventIds : DeleteEvent(id)

CalSpec == Init /\ [][CalNext]_vars

\* -------------------------------------------------------------- roleplay

\* The userIds of the requests; any non-empty string is one.
Users == {"u", "u:t"}

\* The n-th value uuidv4() returns; no two are equal.
uuidv4(n) == ToString(n)

\* The ids of the templates.  The template table is imported from
\* '../templates' and is taken to hold at least one template.
TemplateIds == {"t"}
NoTemplate == ""

\* getTemplateById(id): the template with that id, or undefined.
getTemplateById(id) == IF id \in TemplateIds THEN id ELSE NoTemplate

\* The characterIds of the requests: a template's id, a uuid, or another
\* string.
CharacterIds ==
    TemplateIds \cup {uuidv4(n) : n \in 1..MaxUuids}
                \cup {t \o ":" \o uuidv4(1) : t \in TemplateIds}

\* null, as getCharacter returns it.
NoCharacter == [id |-> "", userId |-> "", templateId |-> NoTemplate]

\* getCharacterKey(userId, characterId): `${userId}:${characterId}`.
getCharacterKey(userId, characterId) == userId \o ":" \o characterId

\* saveCharacter(character): this.characters.set(key, character).
saveCharacter(tbl, character) ==
    LET key == getCharacterKey(character.userId, character.id) IN
    {e \in tbl : e.key # key} \cup {[key |-> key, character |-> character]}

\* getCharacter(userId, characterId): this.characters.get(key) || null.
getCharacter(tbl, userId, characterId) ==
    LET key == getCharacterKey(userId, characterId) IN
    IF \E e \in tbl : e.key = key
    THEN (CHOOSE e \in tbl : e.key = key).character
    ELSE NoCharacter

\* saveSession(session): this.sessions.set(session.id, session).
saveSession(tbl, session) ==
    {e \in tbl : e.id # session.id} \cup {session}

\* createCharacter(input): a character is made from the template
\* input.templateId names, or from the input's own name and personality
\* (`named`: both are given), and saved under a new uuid; an unknown
\* template and a custom character without them fail.
CreateCharacter(userId, templateId, named) ==
    LET failed == IF templateId # NoTemplate
                  THEN getTemplateById(templateId) = NoTemplate
                  ELSE ~named
        character == [id |-> uuidv4(uuids + 1), userId |-> userId,
                      templateId |-> getTemplateById(templateId)]
    IN
    /\ IF failed
       THEN UNCHANGED <<characters, uuids>>
       ELSE /\ uuids < MaxUuids
            /\ uuids' = uuids + 1
            /\ characters' = saveCharacter(characters, character)
    /\ lastCall' = [op |-> "create_character",
                    status |-> IF failed THEN "failed" ELSE "created"]
    /\ UNCHANGED <<now, schedVars, limVars, toolVars, calVars, sessions,
                   roleplays>>

\* startRoleplay(input) up to its first await: getCharacter has read the
\* table when the call is suspended.
StartRoleplay(userId, characterId) ==
    /\ BagCardinality(roleplays) < MaxRoleplays
    /\ roleplays' = roleplays (+)
           SetToBag({[pc |-> "getCharacter", userId |-> userId,
                      characterId |-> characterId,
                      character |-> getCharacter(characters, userId,
                                                 characterId)]})
    /\ lastCall' = [op |-> "start_roleplay", status |-> "suspended"]
    /\ UNCHANGED <<now, schedVars, limVars, toolVars, calVars, characters,
                   sessions, uuids>>

\* The Session startRoleplay builds for a suspended call and its character.
NewSession(call, character, sessionId) ==
    [id |-> sessionId, userId |-> call.userId,
     characterId |-> call.characterId, character |-> character]

\* startRoleplay after `await storage.getCharacter(...)` or after
\* `await storage.saveCharacter(newCharacter)`.  A character that was not
\* found is created from the template input.characterId names and saved
\* under a new uuid, or the call fails; then the session is built and saved
\* under a new uuid.
StartRoleplayResume(call) ==
    LET fromTemplate == /\ call.pc = "getCharacter"
                        /\ call.character = NoCharacter
        template == getTemplateById(call.characterId)
        newCharacter == [id |-> uuidv4(uuids + 1), userId |-> call.userId,
                         templateId |-> template]
    IN
    /\ IF fromTemplate /\ template = NoTemplate
       THEN /\ roleplays' = roleplays (-) SetToBag({call})
            /\ lastCall' = [op |-> "start_roleplay", status |-> "failed"]
            /\ UNCHANGED <<characters, sessions, uuids>>
       ELSE /\ uuids < MaxUuids
            /\ uuids' = uuids + 1
            /\ IF fromTemplate
               THEN /\ characters' = saveCharacter(characters, newCharacter)
                    /\ roleplays' = (roleplays (-) SetToBag({call})) (+)
                           SetToBag({[call EXCEPT !.pc = "saveCharacter",
                                                  !.character = newCharacter]})
                    /\ lastCall' = [op |-> "start_roleplay",
                                    status |-> "suspended"]
                    /\ UNCHANGED sessions
               ELSE /\ sessions' =
                           saveSession(sessions,
                                       NewSession(call, call.character,
                                                  uuidv4(uuids + 1)))
                    /\ roleplays' = roleplays (-) SetToBag({call})
                    /\ lastCall' = [op |-> "start_roleplay",
                                    status |-> "started"]
                    /\ UNCHANGED characters
    /\ UNCHANGED <<now, schedVars, limVars, toolVars, calVars>>

\* The character and roleplay tools over the shared storage; no
\* deleteCharacter is called.
RpNext ==
    \/ \E userId \in Users, templateId \in TemplateIds \cup {NoTemplate, "x"},
          named \in BOOLEAN : CreateCharacter(userId, templateId, named)
    \/ \E userId \in Users, characterId \in CharacterIds :
          StartRoleplay(userId, characterId)
    \/ \E call \in BagToSet(roleplays) : StartRoleplayResume(call)

RpSpec == Init /\ [][RpNext]_vars

\* ---------------------------------------------------- scheduler claims

\* The non-empty entries of the job table.
TableSlots == {i \in 1..Len(jobs) : jobs[i] # EmptySlot}

\* provider.send calls the sweep has made for jobs carrying key k.
RECURSIVE SentForKey(_, _)
SentForKey(k, n) ==
    IF n = 0 THEN 0
    ELSE SentForKey(k, n - 1)
         + (IF objs[n].idempotencyKey = k THEN sendCount[n] ELSE 0)

\* C1: the sweep calls provider.send at most once for every job, and
\* exactly once for a job that has reached executed or failed.
C1_DeliveredExactlyOnce ==
    \A ref \in 1..Len(objs) :
        /\ sendCount[ref] <= 1
        /\ objs[ref].status # "pending" => sendCount[ref] = 1

\* C2: without clear(), provider.send is called at most once in total for
\* the jobs carrying one idempotency key.
C2_AtMostOncePerKey ==
    \A k \in Keys : SentForKey(k, Len(objs)) <= 1

\* C3: a job that is executed or failed keeps its status in every step.
C3_TerminalStatusIsFinal ==
    [][\A ref \in 1..Len(objs) :
          objs[ref].status # "pending" =>
              objs'[ref].status = objs[ref].status]_vars

\* C4: after schedule() has returned isNew=true for key k, and until a
\* cancel or clear removes a job, schedule() with k returns that jobId with
\* isNew=false and the job table holds exactly one job carrying k.
C4_SameKeySameJob ==
    \A k \in Keys :
        firstSched[k] # NoId =>
            /\ \A r \in RandomVals(objs, now) :
                   ScheduleReturn(k, r) = [jobId |-> firstSched[k], isNew |-> FALSE]
            /\ Cardinality({i \in TableSlots :
                               objs[jobs[i].ref].idempotencyKey = k}) = 1

\* C5: every key of the idempotency index names a job of the table that
\* carries that key, and every job of the table has its key in the index,
\* mapped to the job's id.
C5_IndexMatchesTable ==
    /\ \A k \in Keys :
          idempotencyIndex[k] # NoId =>
              /\ JobsGet(jobs, idempotencyIndex[k]) # 0
              /\ objs[JobsGet(jobs, idempotencyIndex[k])].idempotencyKey = k
    /\ \A i \in TableSlots :
          idempotencyIndex[objs[jobs[i].ref].idempotencyKey] = jobs[i].id

\* C11: cancel(jobId) returns true exactly when the table holds a pending
\* job under jobId; it then removes the job and its key's index entry, so
\* getJob(jobId) is undefined; when it returns false, table and index are
\* as they were.
C11_CancelRemovesPending ==
    lastCall.op = "cancel" =>
        /\ lastCall.ret <=> lastCall.wasPending
        /\ lastCall.ret =>
              /\ getJob(lastCall.id) = 0
              /\ idempotencyIndex[lastCall.key] = NoId
        /\ ~lastCall.ret => lastCall.same

C11_Witness ==
    /\ lastCall.op = "cancel"
    /\ lastCall.ret
    /\ getJob(lastCall.id) = 0
    /\ \E i \in TableSlots :
           /\ objs[jobs[i].ref].status # "pending"
           /\ idempotencyIndex[objs[jobs[i].ref].idempotencyKey] = jobs[i].id

\* Job object ref is in the table, pending and due.
DuePending(ref) ==
    /\ ref <= Len(objs)
    /\ getJob(objs[ref].id) = ref
    /\ objs[ref].status = "pending"
    /\ objs[ref].executeAt <= now

\* Job object ref is executed or failed, or its jobId was removed from the
\* table by cancel or clear.
Settled(ref) ==
    /\ ref <= Len(objs)
    /\ objs[ref].status # "pending" \/ getJob(objs[ref].id) = 0

\* C12: with a provider set, the timer running and every send settling,
\* a job that is pending and due is eventually executed or failed, unless
\* cancel or clear removes it first; and a job that was executed had
\* exactly one provider.send call.
C12_DueJobsAreDelivered ==
    /\ \A ref \in 1..MaxJobs :
          (provider /\ timer /\ DuePending(ref)) ~> Settled(ref)
    /\ [](\A ref \in 1..Len(objs) :
             objs[ref].status = "executed" => sendCount[ref] = 1)

\* C13: getPendingJobs() returns every job of the table whose status is
\* pending, once each, and no other job.
C13_ExactlyThePending ==
    LET got == getPendingJobs IN
    /\ \A i \in TableSlots :
          objs[jobs[i].ref].status = "pending" <=>
              \E n \in 1..Len(got) : got[n] = jobs[i].ref
    /\ \A n \in 1..Len(got) :
          /\ \E i \in TableSlots : jobs[i].ref = got[n]
          /\ objs[got[n]].status = "pending"
    /\ \A m, n \in 1..Len(got) : got[m] = got[n] => m = n

C13_Witness ==
    /\ Len(getPendingJobs) = 1
    /\ \E i \in TableSlots : objs[jobs[i].ref].status = "failed"
    /\ \E i \in TableSlots : getPendingJobs[1] = jobs[i].ref

\* C21: a schedule() call whose idempotencyKey the index already holds
\* returns the indexed jobId with isNew=false and changes nothing: the job
\* table, the index and every job object (payload, executeAt, status) are
\* as they were, whether the indexed job is pending, executed or failed.
C21_DuplicateScheduleChangesNothing ==
    (lastCall.op = "schedule" /\ lastCall.mapped) =>
        /\ ~lastCall.ret.isNew
        /\ lastCall.ret.jobId = idempotencyIndex[lastCall.key]
        /\ lastCall.same

C21_Witness ==
    /\ lastCall.op = "schedule"
    /\ lastCall.mapped
    /\ Cardinality(TableSlots) = 1
    /\ \E i \in TableSlots :
           /\ jobs[i].id = lastCall.ret.jobId
           /\ objs[jobs[i].ref].idempotencyKey = lastCall.key
           /\ objs[jobs[i].ref].status = "executed"
           /\ objs[jobs[i].ref].request.message # lastCall.message

\* C22: a step that changes the index entry of a key it mapped to a jobId
\* of the job table leaves no job under that jobId in the table; so the
\* entry names the same jobId for as long as the job stays in the table.
C22_IndexNeverRepointed ==
    [][\A k \in Keys :
          (/\ idempotencyIndex'[k] # idempotencyIndex[k]
           /\ idempotencyIndex[k] # NoId
           /\ JobsGet(jobs, idempotencyIndex[k]) # 0) =>
              JobsGet(jobs', idempotencyIndex[k]) = 0]_vars

C22_Witness ==
    /\ lastCall.op = "cancel"
    /\ lastCall.ret
    /\ \E k \in Keys \ {lastCall.key} :
           /\ idempotencyIndex[k] # NoId
           /\ getJob(idempotencyIndex[k]) # 0
           /\ objs[getJob(idempotencyIndex[k])].idempotencyKey = k
           /\ objs[getJob(idempotencyIndex[k])].status = "executed"

\* C23: the job a processJobs() call awaits the send of has an executeAt
\* no later than the time the call read when it started; and neither the
\* start of a call nor the settling of its send changes a job whose
\* executeAt is later than that time.
C23_NotDueUntouched ==
    /\ [](\A sw \in BagToSet(sweeps) : objs[sw.ref].executeAt <= sw.now)
    /\ [][/\ lastCall'.op = "tick" => objs' = objs
          /\ lastCall'.op = "resolve" =>
                \A sw \in BagToSet(sweeps) : \A o \in Outcomes :
                    Resolve(sw, o) =>
                        \A ref \in 1..Len(objs) :
                            objs[ref].executeAt > sw.now =>
                                objs'[ref] = objs[ref]]_vars

C23_Witness ==
    \E sw \in BagToSet(sweeps) : \E i \in TableSlots :
        /\ i < sw.pos
        /\ objs[jobs[i].ref].status = "pending"
        /\ objs[jobs[i].ref].executeAt > sw.now
        /\ objs[jobs[i].ref].executeAt <= now
        /\ sendCount[jobs[i].ref] = 0

\* C24: when the send awaited for one job is rejected or resolves with a
\* failure, the same processJobs() call goes on: for every later entry of
\* the table whose job is pending and was due when the call started, the
\* call now awaits the send of that job or of one before it; and every job
\* a send was made for is eventually executed or failed.
C24_FailureDoesNotStopTick ==
    /\ [][lastCall'.op = "resolve" =>
          \A sw \in BagToSet(sweeps) : \A o \in Outcomes \ {"sent"} :
            Resolve(sw, o) =>
                \A i \in TableSlots :
                    (/\ i > sw.pos
                     /\ objs[jobs[i].ref].status = "pending"
                     /\ objs[jobs[i].ref].executeAt <= sw.now) =>
                        \E nx \in BagToSet(sweeps') :
                            /\ nx.now = sw.now
                            /\ nx.pos > sw.pos /\ nx.pos <= i
                            /\ nx.ref = jobs[nx.pos].ref
                            /\ sendCount'[nx.ref] = sendCount[nx.ref] + 1]_vars
    /\ \A ref \in 1..MaxJobs :
          (ref <= Len(objs) /\ sendCount[ref] > 0) ~>
              (ref <= Len(objs) /\ objs[ref].status # "pending")

C24_Witness ==
    /\ lastCall.op = "resolve"
    /\ objs[lastCall.ref].status = "failed"
    /\ lastCall.next # 0
    /\ objs[jobs[lastCall.next].ref].status = "pending"
    /\ sendCount[jobs[lastCall.next].ref] = 1
    /\ BagCardinality(sweeps) = 1

\* Job object ref is the table's value under its jobId.
InTable(ref) == JobsGet(jobs, objs[ref].id) = ref

\* C25: a cancel(jobId) that returns true for a job no send was made for
\* takes the job out of the table; a job that is out of the table does not
\* come back; and no processJobs() call, one suspended in the send of
\* another job included, makes a send for a job that is out of the table.
C25_CancelledBeforeDeliveryNeverSent ==
    [][/\ (lastCall'.op = "cancel" /\ lastCall'.ret) =>
            \A ref \in 1..Len(objs) :
                (/\ InTable(ref)
                 /\ sendCount[ref] = 0
                 /\ lastCall'.id = objs[ref].id) =>
                    JobsGet(jobs', objs[ref].id) = 0
       /\ (jobs' # jobs \/ sendCount' # sendCount) =>
            \A ref \in 1..Len(objs) :
                ~InTable(ref) =>
                    /\ JobsGet(jobs', objs[ref].id) # ref
                    /\ sendCount'[ref] = sendCount[ref]]_vars

C25_Witness ==
    /\ lastCall.op = "cancel"
    /\ lastCall.ret
    /\ \E sw \in BagToSet(sweeps) : \E ref \in 1..Len(objs) :
           /\ ref # sw.ref
           /\ objs[ref].id = lastCall.id
           /\ objs[ref].idempotencyKey = lastCall.key
           /\ objs[ref].executeAt <= sw.now
           /\ sendCount[ref] = 0
           /\ ~InTable(ref)
           /\ \E i \in (sw.pos + 1)..Len(jobs) : jobs[i] = EmptySlot

\* C26: while the send a processJobs() call made for a job of the table
\* is unresolved, cancel of that job's id returns true (and so removes the
\* job and its index entry); and the settling of a send leaves the job
\* table and the index as they were, so a job cancelled meanwhile is not
\* inserted again.
C26_CancelDuringDelivery ==
    /\ [](\A sw \in BagToSet(sweeps) :
             InTable(sw.ref) => CancelReturn(objs[sw.ref].id))
    /\ [][lastCall'.op = "resolve" =>
             /\ jobs' = jobs
             /\ idempotencyIndex' = idempotencyIndex
             /\ (~lastCall'.inTable => ~InTable(lastCall'.ref))]_vars

\* C29: the scheduler has at most one active interval timer, and has one
\* exactly when its timer field is set; start() with the timer running
\* and stop() with the timer stopped change nothing; after start() the
\* timer is running and after stop() none is active; and processJobs() is
\* called by a timer tick only while the timer is running.
C29_StartStopIdempotent ==
    /\ intervals <= 1
    /\ timer <=> intervals = 1
    /\ (lastCall.op = "start" /\ lastCall.wasRunning) => lastCall.same
    /\ (lastCall.op = "stop" /\ ~lastCall.wasRunning) => lastCall.same
    /\ lastCall.op = "start" => timer
    /\ lastCall.op = "stop" => ~timer /\ intervals = 0
    /\ lastCall.op = "tick" => timer

C29_Witness ==
    /\ lastCall.op = "start"
    /\ lastCall.wasRunning
    /\ lastCall.same
    /\ intervals = 1
    /\ BagCardinality(sweeps) > 0

\* C30: after a schedule() call that returned isNew=true the timer is
\* running, also when it was stopped before the call; a schedule() call
\* that returned isNew=false leaves the timer running or stopped as it
\* was.
C30_NewJobStartsTimer ==
    lastCall.op = "schedule" =>
        /\ lastCall.ret.isNew => timer /\ intervals = 1
        /\ ~lastCall.ret.isNew =>
              /\ timer = lastCall.wasRunning
              /\ intervals = (IF lastCall.wasRunning THEN 1 ELSE 0)

C30_Witness ==
    /\ lastCall.op = "schedule"
    /\ lastCall.ret.isNew
    /\ ~lastCall.wasRunning
    /\ timer
    /\ Len(objs) = MaxJobs

\* C31: the jobIds schedule() returned with isNew=true (the ids of the job
\* objects) are all different, a new job's id is not a key of the table
\* when it is inserted, and no two idempotency keys are mapped to one
\* jobId.
C31_JobIdsUnique ==
    /\ \A a, b \in 1..Len(objs) : a # b => objs[a].id # objs[b].id
    /\ \A k1, k2 \in Keys :
          (k1 # k2 /\ idempotencyIndex[k1] # NoId) =>
              idempotencyIndex[k1] # idempotencyIndex[k2]
    /\ (lastCall.op = "schedule" /\ lastCall.ret.isNew) =>
          \A ref \in 1..(Len(objs) - 1) : objs[ref].id # lastCall.ret.jobId

\* C32: the request of every job a processJobs() call made a send for, and
\* of every job whose send is unresolved, has confirm = true, whatever
\* confirm the schedule() request carried.
C32_SweepSendsConfirmed ==
    /\ \A sw \in BagToSet(sweeps) : objs[sw.ref].request.confirm = TRUE
    /\ \A ref \in 1..Len(objs) :
          sendCount[ref] > 0 => objs[ref].request.confirm = TRUE

C32_Witness ==
    /\ lastCall.op = "tick"
    /\ lastCall.began
    /\ \E sw \in BagToSet(sweeps) :
           /\ sw.now = now
           /\ sendCount[sw.ref] = 1
           /\ objs[sw.ref].status = "pending"
           /\ objs[sw.ref].request.confirm = TRUE

\* C35: in every state, each job of the table has executedAt set exactly
\* when its status is executed and error set exactly when its status is
\* failed, so a pending job has neither.
C35_FieldsMatchStatus ==
    \A i \in TableSlots :
        LET job == objs[jobs[i].ref] IN
        /\ (job.executedAt # NoTime) <=> (job.status = "executed")
        /\ (job.error # NoError) <=> (job.status = "failed")

\* C36: when cancel(j) has returned true for a job with key k and the next
\* call is schedule() with k, that call returns isNew = true with a jobId
\* other than j, and the table holds under that jobId a new job with the
\* call's key, message and executeAt.
C36_CancelFreesKey ==
    [][(/\ lastCall.op = "cancel"
        /\ lastCall.ret
        /\ lastCall'.op = "schedule"
        /\ lastCall'.key = lastCall.key) =>
          LET ref == JobsGet(jobs', lastCall'.ret.jobId) IN
          /\ lastCall'.ret.isNew
          /\ lastCall'.ret.jobId # lastCall.id
          /\ ref = Len(objs')
          /\ Len(objs') = Len(objs) + 1
          /\ objs'[ref].idempotencyKey = lastCall'.key
          /\ objs'[ref].request.message = lastCall'.message
          /\ \E at \in ExecuteAts, c \in BOOLEAN, r \in RandomVals(objs, now) :
                /\ Schedule(lastCall'.key, at, lastCall'.message, c, r)
                /\ objs'[ref].executeAt = at]_vars

\* C37: in every state of the calendar provider, whatever createEvent and
\* deleteEvent calls were made and however the createEvent calls
\* interleaved, no two stored events overlap (start1 < end2 and
\* end1 > start2).
C37_NoOverlappingEvents ==
    \A e1, e2 \in events :
        e1 # e2 => ~(e1.startAt < e2.endAt /\ e1.endAt > e2.startAt)

\* C38: in every state (no deleteCharacter being called), for every stored
\* session with userId u and characterId c, getCharacter(u, c) returns the
\* session's character, also when startRoleplay created the character from
\* a template.
C38_SessionsReferToStoredCharacters ==
    \A session \in sessions :
        getCharacter(characters, session.userId, session.characterId)
            = session.character

\* The last step handled a tool request.
ToolCalled == lastCall.op \in {"schedule_notification", "send_notification"}

C15_RateLimitedIsRejected ==
    (ToolCalled /\ lastCall.rateChecked /\ ~lastCall.rateAllowed) =>
        /\ lastCall.response =
               [status |-> "failed", error |-> "RATE_LIMIT_EXCEEDED"]
        /\ ~lastCall.invoked
        /\ ~lastCall.stored
        /\ ~lastCall.touched

C15_Witness ==
    /\ lastCall.op = "schedule_notification"
    /\ lastCall.confirm
    /\ lastCall.rateChecked
    /\ ~lastCall.rateAllowed
    /\ lastCall.response.error = "RATE_LIMIT_EXCEEDED"
    /\ idempotencyIndex[lastCall.key] = NoId
    /\ Len(objs) < MaxJobs

C17_SettledStatus ==
    [][lastCall'.op = "resolve" =>
        \A sw \in BagToSet(sweeps) : \A o \in Outcomes :
          Resolve(sw, o) =>
              /\ o = "sent" =>
                    /\ objs'[sw.ref].status = "executed"
                    /\ objs'[sw.ref].executedAt = now
              /\ o # "sent" =>
                    /\ objs'[sw.ref].status = "failed"
                    /\ objs'[sw.ref].error # NoError
              /\ NextDue(jobs, objs', sw.pos, sw.now) # 0 =>
                    \E nx \in BagToSet(sweeps') :
                        /\ nx.now = sw.now
                        /\ nx.pos = NextDue(jobs, objs', sw.pos, sw.now)]_vars

C17_Witness ==
    \E a, b \in 1..Len(objs) :
        /\ objs[a].status = "executed"
        /\ objs[a].executedAt # NoTime
        /\ objs[b].status = "failed"
        /\ objs[b].error # NoError

\* C18: while no provider is set, a timer tick begins no delivery and
\* changes no job: every job is pending, no send was made and none is in
\* flight.  With a provider set, a tick begins a delivery whenever the
\* table holds a pending job that is due.
C18_NoProviderNoProgress ==
    /\ ~provider =>
          /\ \A ref \in 1..Len(objs) :
                objs[ref].status = "pending" /\ sendCount[ref] = 0
          /\ sweeps = EmptyBag
          /\ lastCall.op = "tick" => ~lastCall.began
    /\ (lastCall.op = "tick" /\ lastCall.provider /\ ~lastCall.began) =>
          NextDue(jobs, objs, 0, now) = 0

C18_Witness ==
    /\ ~provider
    /\ lastCall.op = "tick"
    /\ \E i \in TableSlots :
           /\ objs[jobs[i].ref].status = "pending"
           /\ objs[jobs[i].ref].executeAt < now

\* C20: at most one provider.send call made by processJobs is unresolved
\* at any time.
C20_OneDeliveryInFlight == BagCardinality(sweeps) <= 1

\* --------------------------------------------------- rate limiter claims

\* The last call was made on a key whose entry a check created at most
\* windowMs earlier.
InLiveWindow ==
    /\ lastResult.started # NoTime
    /\ lastResult.at <= lastResult.started + WindowMs

\* C6: once maxRequests check(k) calls were made in k's window, a further
\* check(k) in that window returns allowed=false and remaining=0 and
\* leaves every entry as it was.
C6_RejectsBeyondMax ==
    (lastResult.op = "check" /\ InLiveWindow
        /\ lastResult.calls >= MaxRequests) =>
        /\ lastResult.result.allowed = FALSE
        /\ lastResult.result.remaining = 0
        /\ limits = lastResult.before

C6_Witness ==
    /\ lastResult.op = "check"
    /\ InLiveWindow
    /\ lastResult.calls = MaxRequests + 1
    /\ lastResult.at = lastResult.started + WindowMs
    /\ ~lastResult.result.allowed

\* C7: no more than maxRequests check(key) calls made within any windowMs
\* milliseconds (and since the key's last reset) return allowed=true.
C7_SlidingWindow ==
    \A k \in LimKeys : Len(allowedLog[k]) <= MaxRequests

\* C8 as stated: a check made windowMs or more after the check that
\* created the key's entry starts a fresh window.
C8_FreshAtOrAfterWindow ==
    (lastResult.op = "check" /\ lastResult.started # NoTime
        /\ lastResult.at >= lastResult.started + WindowMs) =>
        /\ lastResult.result.allowed
        /\ lastResult.result.remaining = MaxRequests - 1
        /\ limits[lastResult.key] =
               [count |-> 1, resetAt |-> lastResult.at + WindowMs]

\* C8, amended: a check made more than windowMs after the check that
\* created the key's entry starts a fresh window: allowed=true,
\* remaining = maxRequests - 1, whatever count the old window reached.
C8_FreshAfterWindow ==
    (lastResult.op = "check" /\ lastResult.started # NoTime
        /\ lastResult.at > lastResult.started + WindowMs) =>
        /\ lastResult.result.allowed
        /\ lastResult.result.remaining = MaxRequests - 1
        /\ limits[lastResult.key] =
               [count |-> 1, resetAt |-> lastResult.at + WindowMs]

C8_Witness ==
    /\ lastResult.op = "check"
    /\ lastResult.started # NoTime
    /\ lastResult.at > lastResult.started + WindowMs
    /\ lastResult.before[lastResult.key].count = MaxRequests
    /\ lastResult.result.allowed

\* C9: peek leaves the entry table as it was, and for a key without entry
\* or with an expired one it reports allowed with remaining = maxRequests.
C9_PeekWritesNothing ==
    lastResult.op = "peek" =>
        /\ limits = lastResult.before
        /\ (\/ lastResult.before[lastResult.key] = NoEntry
            \/ lastResult.at > lastResult.before[lastResult.key].resetAt) =>
               /\ lastResult.result.allowed
               /\ lastResult.result.remaining = MaxRequests

C9_Witness ==
    /\ lastResult.op = "peek"
    /\ lastResult.before[lastResult.key] # NoEntry
    /\ lastResult.at > lastResult.before[lastResult.key].resetAt
    /\ limits[lastResult.key] = lastResult.before[lastResult.key]
    /\ lastResult.result.remaining = MaxRequests

\* C10: check, peek and reset of one key leave the entry of every other
\* key as it was, and a check is rejected only when maxRequests checks of
\* its own key were made in that key's window.
C10_KeysAreIndependent ==
    /\ lastResult.op \in {"check", "peek", "reset"} =>
          \A b \in LimKeys \ {lastResult.key} :
              limits[b] = lastResult.before[b]
    /\ (lastResult.op = "check" /\ ~lastResult.result.allowed) =>
          lastResult.calls >= MaxRequests

C10_Witness ==
    /\ lastResult.op = "check"
    /\ lastResult.key = "b"
    /\ lastResult.result.allowed
    /\ lastResult.before["b"] = NoEntry
    /\ limits["a"].count = MaxRequests
    /\ lastResult.at <= limits["a"].resetAt

\* C27: a check(key) that returns allowed=false leaves every entry as it
\* was, the key's count and resetAt included; so at every time later than
\* the resetAt the key had before the call, a check of the key is allowed.
C27_RejectionChangesNothing ==
    (lastResult.op = "check" /\ ~lastResult.result.allowed) =>
        /\ limits = lastResult.before
        /\ limits[lastResult.key].count =
               lastResult.before[lastResult.key].count
        /\ limits[lastResult.key].resetAt =
               lastResult.before[lastResult.key].resetAt
        /\ lastResult.result.resetAt =
               lastResult.before[lastResult.key].resetAt
        /\ \A t \in 0..(LimMaxTime + 1) :
               t > lastResult.before[lastResult.key].resetAt =>
                   CheckResult(limits, lastResult.key, t).allowed

C27_Witness ==
    /\ lastResult.op = "check"
    /\ ~lastResult.result.allowed
    /\ lastResult.calls > MaxRequests
    /\ lastResult.at > lastResult.started
    /\ limits[lastResult.key].resetAt = lastResult.started + WindowMs

\* C28: every check and peek returns what it returns from a limiter whose
\* cleanup() never ran; the entries of the two differ only where cleanup
\* deleted an entry that check and peek treat as expired; and at every
\* later time check and peek of every key return the same from both.
C28_CleanupIsInvisible ==
    /\ lastResult.op \in {"check", "peek"} =>
          lastResult.result = lastResult.unswept
    /\ \A k \in LimKeys :
          /\ limits[k] # unswept[k] =>
                /\ limits[k] = NoEntry
                /\ Expired(unswept[k], now)
          /\ \A t \in now..(LimMaxTime + 1) :
                /\ CheckResult(limits, k, t) = CheckResult(unswept, k, t)
                /\ PeekResult(limits, k, t) = PeekResult(unswept, k, t)

C28_Witness ==
    /\ lastResult.op = "check"
    /\ ~lastResult.result.allowed
    /\ \E k \in LimKeys \ {lastResult.key} :
           /\ limits[k] = NoEntry
           /\ unswept[k].count = MaxRequests

\* C33: every stored entry has a count from 1 to maxRequests; every check
\* returns a remaining from 0 to maxRequests - 1, which is maxRequests
\* minus the count the call left when it returned allowed=true.
C33_CountsWithinLimits ==
    /\ \A k \in LimKeys :
          limits[k] # NoEntry =>
              limits[k].count >= 1 /\ limits[k].count <= MaxRequests
    /\ lastResult.op = "check" =>
          /\ lastResult.result.remaining >= 0
          /\ lastResult.result.remaining <= MaxRequests - 1
          /\ lastResult.result.allowed =>
                lastResult.result.remaining =
                    MaxRequests - limits[lastResult.key].count

C33_Witness ==
    /\ lastResult.op = "check"
    /\ lastResult.result.allowed
    /\ lastResult.result.remaining = 0
    /\ limits[lastResult.key].count = MaxRequests
    /\ lastResult.before[lastResult.key].count = MaxRequests - 1

\* C34: in every state, for every key and at every time from now on, peek
\* returns the allowed that check would return at that time, and when it
\* is true peek's remaining is check's remaining plus one and both return
\* the same resetAt.
C34_PeekAgreesWithCheck ==
    \A k \in LimKeys : \A t \in now..(LimMaxTime + 1) :
        LET p == PeekResult(limits, k, t)
            c == CheckResult(limits, k, t)
        IN /\ p.allowed = c.allowed
           /\ p.allowed =>
                 /\ p.remaining = c.remaining + 1
                 /\ p.resetAt = c.resetAt

C34_Witness ==
    /\ lastResult.op = "peek"
    /\ lastResult.result.allowed
    /\ lastResult.result.remaining = 1
    /\ limits[lastResult.key].count = MaxRequests - 1
    /\ now = limits[lastResult.key].resetAt
    /\ CheckResult(limits, lastResult.key, now).remaining = 0
    /\ \E k \in LimKeys : ~PeekResult(limits, k, now).allowed

\* What check returns, and the entry it leaves, when it starts a window at
\* time t.
FreshResult(t) ==
    [allowed |-> TRUE, remaining |-> MaxRequests - 1, resetAt |-> t + WindowMs]
FreshEntry(t) == [count |-> 1, resetAt |-> t + WindowMs]

\* C19: reset(key) leaves the key without entry whatever its count was, and
\* clear() leaves the limiter with no entry at all; a check of a key
\* without entry starts a fresh window: allowed=true, remaining =
\* maxRequests - 1, count 1.
C19_ResetStartsFresh ==
    /\ lastResult.op = "reset" =>
          /\ limits[lastResult.key] = NoEntry
          /\ CheckResult(limits, lastResult.key, now) = FreshResult(now)
          /\ CheckLimits(limits, lastResult.key, now)[lastResult.key]
                 = FreshEntry(now)
    /\ lastResult.op = "clear" =>
          /\ size(limits) = 0
          /\ \A k \in LimKeys :
                /\ CheckResult(limits, k, now) = FreshResult(now)
                /\ CheckLimits(limits, k, now)[k] = FreshEntry(now)
    /\ (lastResult.op = "check"
           /\ lastResult.before[lastResult.key] = NoEntry) =>
          /\ lastResult.result = FreshResult(lastResult.at)
          /\ limits[lastResult.key] = FreshEntry(lastResult.at)

C19_Witness ==
    /\ lastResult.op = "reset"
    /\ lastResult.before[lastResult.key].count = MaxRequests
    /\ now <= lastResult.before[lastResult.key].resetAt
    /\ limits[lastResult.key] = NoEntry
    /\ \E k \in LimKeys : limits[k] # NoEntry

====
